---- MODULE Spec2Model ----
(***************************************************************************)
(* uFBT bootstrap: SDK source resolution, task reconciliation and          *)
(* deployment (src/ufbt/bootstrap.py).  One command invocation runs at a   *)
(* time against the state directory; `update` is split at every point      *)
(* where it touches the network or the filesystem, so that every           *)
(* intermediate on-disk state of deploy() is a state of the model.         *)
(***************************************************************************)
EXTENDS Integers, Sequences, FiniteSets, TLC

(***************************************************************************)
(* Values                                                                  *)
(***************************************************************************)
\* Python's None, and "key not present in the dict"
NoneV == "None"
Absent == "<absent>"

\* the hardware targets
Targets == {"f7", "f18"}

\* how many numbered versions the indexes publish over time
NumVersions == 2

VersionNames == <<"1.2.0", "1.3.0", "1.4.0">>

VERSION_UNKNOWN == "unknown"
ALWAYS_UPDATE_VERSIONS == {VERSION_UNKNOWN, "local"}

\* version strings an index may carry: an index is free to publish any string,
\* the sentinel included
Versions == {VersionNames[i] : i \in 1..NumVersions} \cup {VERSION_UNKNOWN}

DEFAULT_HW_TARGET == "f7"
UPDATE_SERVER_BRANCH_ROOT == "https://update.flipperzero.one/builds/firmware"
OFFICIAL_INDEX_URL == "https://update.flipperzero.one/firmware/directory.json"

\* the loader classes, in the order of the tuple the code iterates over;
\* each is named by its LOADER_MODE_KEY
all_boostrap_loader_cls == <<"branch", "channel", "url", "local">>

\* UpdateChannel: member name -> value
UpdateChannel == [DEV |-> "development", RC |-> "release-candidate", RELEASE |-> "release"]

\* str.upper() and str.lower() on the strings the model uses
Upper(s) ==
    CASE s = "dev" -> "DEV"
      [] s = "rc" -> "RC"
      [] s = "release" -> "RELEASE"
      [] s = "development" -> "DEVELOPMENT"
      [] s = "release-candidate" -> "RELEASE-CANDIDATE"
      [] OTHER -> s

Lower(s) ==
    CASE s = "DEV" -> "dev"
      [] s = "RC" -> "rc"
      [] s = "RELEASE" -> "release"
      [] OTHER -> s

\* Python truthiness of an optional string
Truthy(v) == v \notin {NoneV, Absent, ""}

(***************************************************************************)
(* Dicts: total functions over Keys; a key that is not in the dict maps to *)
(* Absent.                                                                 *)
(***************************************************************************)
Keys == {"hw_target", "mode", "version", "branch", "branch_root",
         "channel", "index_html", "url", "file_path"}

EmptyDict == [k \in Keys |-> Absent]

\* dict.get(key, default)
DictGet(d, k, default) == IF d[k] = Absent THEN default ELSE d[k]

\* dict.update(other): every key of other, None values included
DictUpdate(d, other) == [k \in Keys |-> IF other[k] # Absent THEN other[k] ELSE d[k]]

(***************************************************************************)
(* Command lines                                                           *)
(***************************************************************************)
\* argparse.Namespace, with the options of all subcommands (those a subcommand
\* does not have are None or False).  The mode options of `update` form a
\* mutually exclusive group, so at most one of them is given
ModeOptions == {"branch", "channel", "url", "local"}

OptionValues(opt) ==
    CASE opt = "branch" -> {"dev"}
      [] opt = "channel" -> {"release", "rc"}
      [] opt = "url" -> {"https://example.org/sdk.zip"}
      [] opt = "local" -> {"/tmp/sdk.zip"}

NoModeArgs == [branch |-> NoneV, channel |-> NoneV, url |-> NoneV, local |-> NoneV]

ModeArgs ==
    {NoModeArgs} \cup
    {[NoModeArgs EXCEPT ![opt] = v] : <<opt, v>> \in
        UNION {{<<o, w>> : w \in OptionValues(o)} : o \in ModeOptions}}

\* --index-url: not given
IndexUrls == {NoneV}

UpdateArgs ==
    {[hw_target |-> t, force |-> f, index_url |-> u,
      branch |-> m.branch, channel |-> m.channel, url |-> m.url, local |-> m.local,
      purge |-> FALSE, downloads |-> FALSE] :
        t \in Targets \cup {NoneV}, f \in BOOLEAN, u \in IndexUrls, m \in ModeArgs}

(***************************************************************************)
(* Loader classes (the VersionSource variants)                             *)
(***************************************************************************)
NoKwargs == [branch |-> NoneV, branch_root_url |-> NoneV, channel |-> NoneV,
             index_html_url |-> NoneV, url |-> NoneV, file_path |-> NoneV]

\* <cls>.args_namespace_to_metadata(args)
args_namespace_to_metadata(cls, args) ==
    CASE cls = "branch" ->
            [EmptyDict EXCEPT !["branch"] = args.branch, !["branch_root"] = args.index_url]
      [] cls = "channel" ->
            [EmptyDict EXCEPT !["channel"] = args.channel, !["index_html"] = args.index_url]
      [] cls = "url" -> [EmptyDict EXCEPT !["url"] = args.url]
      [] cls = "local" -> [EmptyDict EXCEPT !["file_path"] = args.local]

\* <cls>.metadata_to_init_kwargs(metadata); raises = a KeyError / AttributeError
metadata_to_init_kwargs(cls, metadata) ==
    CASE cls = "branch" ->
            [raises |-> metadata["branch"] = Absent,
             kwargs |-> [NoKwargs EXCEPT
                            !.branch = metadata["branch"],
                            !.branch_root_url =
                                DictGet(metadata, "branch_root", UPDATE_SERVER_BRANCH_ROOT)]]
      [] cls = "channel" ->
            [raises |-> \/ metadata["channel"] \in {Absent, NoneV}
                        \/ Upper(metadata["channel"]) \notin DOMAIN UpdateChannel,
             kwargs |-> [NoKwargs EXCEPT
                            !.channel = Upper(metadata["channel"]),
                            !.index_html_url = DictGet(metadata, "index_html", NoneV)]]
      [] cls = "url" ->
            [raises |-> metadata["url"] = Absent,
             kwargs |-> [NoKwargs EXCEPT !.url = metadata["url"]]]
      [] cls = "local" ->
            [raises |-> metadata["file_path"] = Absent,
             kwargs |-> [NoKwargs EXCEPT !.file_path = metadata["file_path"]]]

\* A loader instance.  version is _version (branch) or version_info["version"]
\* (channel); files is the set of hardware targets for which the resolved index
\* holds a usable SDK archive entry.
NoLoader == [cls |-> NoneV, branch |-> NoneV, branch_root |-> NoneV, channel |-> NoneV,
             index_html_url |-> NoneV, url |-> NoneV, file_path |-> NoneV,
             version |-> NoneV, files |-> {}]

\* <cls>.__init__(download_dir, **kwargs), given what the index answered
LoaderInit(cls, kw, version, files) ==
    CASE cls = "branch" ->
            [NoLoader EXCEPT !.cls = cls, !.branch = kw.branch,
                !.branch_root = IF Truthy(kw.branch_root_url) THEN kw.branch_root_url
                                ELSE UPDATE_SERVER_BRANCH_ROOT,
                !.version = version, !.files = files]
      [] cls = "channel" ->
            [NoLoader EXCEPT !.cls = cls, !.channel = kw.channel,
                !.index_html_url = IF Truthy(kw.index_html_url) THEN kw.index_html_url
                                   ELSE OFFICIAL_INDEX_URL,
                !.version = version, !.files = files]
      [] cls = "url" -> [NoLoader EXCEPT !.cls = cls, !.url = kw.url]
      [] cls = "local" -> [NoLoader EXCEPT !.cls = cls, !.file_path = kw.file_path]

\* get_metadata storing the value of the channel ("development") where the
\* code stores its lower-cased name ("dev")
get_metadataChannelValue(loader) ==
    CASE loader.cls = "branch" ->
            [EmptyDict EXCEPT !["mode"] = "branch", !["branch"] = loader.branch,
                !["version"] = loader.version, !["branch_root"] = loader.branch_root]
      [] loader.cls = "channel" ->
            [EmptyDict EXCEPT !["mode"] = "channel",
                !["channel"] = UpdateChannel[loader.channel],
                !["index_html"] = loader.index_html_url, !["version"] = loader.version]
      [] loader.cls = "url" ->
            [EmptyDict EXCEPT !["mode"] = "url", !["url"] = loader.url,
                !["version"] = VERSION_UNKNOWN]
      [] loader.cls = "local" ->
            [EmptyDict EXCEPT !["mode"] = "local", !["file_path"] = loader.file_path,
                !["version"] = VERSION_UNKNOWN]
      [] OTHER -> EmptyDict

\* loader.get_metadata()
get_metadata(loader) ==
    CASE loader.cls = "branch" ->
            [EmptyDict EXCEPT !["mode"] = "branch", !["branch"] = loader.branch,
                !["version"] = loader.version, !["branch_root"] = loader.branch_root]
      [] loader.cls = "channel" ->
            [EmptyDict EXCEPT !["mode"] = "channel", !["channel"] = Lower(loader.channel),
                !["index_html"] = loader.index_html_url, !["version"] = loader.version]
      [] loader.cls = "url" ->
            [EmptyDict EXCEPT !["mode"] = "url", !["url"] = loader.url,
                !["version"] = VERSION_UNKNOWN]
      [] loader.cls = "local" ->
            [EmptyDict EXCEPT !["mode"] = "local", !["file_path"] = loader.file_path,
                !["version"] = VERSION_UNKNOWN]
      [] OTHER -> EmptyDict

(***************************************************************************)
(* SdkDeployTask                                                           *)
(***************************************************************************)
\* SdkDeployTask()
NewTask == [hw_target |-> NoneV, force |-> FALSE, mode |-> NoneV, all_params |-> EmptyDict]

\* update_from falling back to the default task when no mode is requested
update_fromDefaulting(self, other) ==
    IF Truthy(other.mode)
    THEN [hw_target |-> IF Truthy(other.hw_target) THEN other.hw_target ELSE self.hw_target,
          mode |-> other.mode,
          force |-> other.force,
          all_params |-> [k \in Keys |-> IF Truthy(other.all_params[k])
                                         THEN other.all_params[k]
                                         ELSE self.all_params[k]]]
    ELSE [hw_target |-> IF Truthy(other.hw_target) THEN other.hw_target ELSE self.hw_target,
          mode |-> "channel",
          force |-> other.force,
          all_params |-> [EmptyDict EXCEPT !["channel"] = "release"]]

\* update_from copying every key of the request as dict.update would, None
\* values included
update_fromErasing(self, other) ==
    [hw_target |-> IF Truthy(other.hw_target) THEN other.hw_target ELSE self.hw_target,
     mode |-> IF Truthy(other.mode) THEN other.mode ELSE self.mode,
     force |-> other.force,
     all_params |-> DictUpdate(self.all_params, other.all_params)]

\* self.update_from(other), as the value of self afterwards
update_from(self, other) ==
    [hw_target |-> IF Truthy(other.hw_target) THEN other.hw_target ELSE self.hw_target,
     mode |-> IF Truthy(other.mode) THEN other.mode ELSE self.mode,
     force |-> other.force,
     all_params |-> [k \in Keys |-> IF Truthy(other.all_params[k])
                                    THEN other.all_params[k]
                                    ELSE self.all_params[k]]]

\* SdkDeployTask.default()
default ==
    [NewTask EXCEPT !.hw_target = DEFAULT_HW_TARGET, !.mode = "channel",
                    !.all_params = [EmptyDict EXCEPT !["channel"] = UpdateChannel.RELEASE]]

\* the loop of from_args over the loader classes, from class number i on
RECURSIVE FromArgsLoop(_, _, _)
FromArgsLoop(i, args, params) ==
    IF i > Len(all_boostrap_loader_cls)
    THEN [mode |-> NoneV, all_params |-> params]
    ELSE LET cls == all_boostrap_loader_cls[i]
             p == DictUpdate(params, args_namespace_to_metadata(cls, args))
         IN  IF Truthy(args[cls])
             THEN [mode |-> cls, all_params |-> p]
             ELSE FromArgsLoop(i + 1, args, p)

\* the hardware target from_args gives the task
ArgsHwTarget(args) ==
    IF Truthy(args.hw_target) THEN args.hw_target ELSE DEFAULT_HW_TARGET

\* SdkDeployTask.from_args(args)
from_args(args) ==
    LET r == FromArgsLoop(1, args, EmptyDict)
    IN  [hw_target |-> ArgsHwTarget(args), force |-> args.force,
         mode |-> r.mode, all_params |-> r.all_params]

\* SdkDeployTask.from_dict(data)
from_dict(data) ==
    [hw_target |-> DictGet(data, "hw_target", NoneV), force |-> FALSE,
     mode |-> DictGet(data, "mode", NoneV), all_params |-> data]

\* SdkLoaderFactory.create_for_task: the class the loop over the classes
\* leaves in loader_cls (the last one when none matches)
RECURSIVE LoaderClsLoop(_, _)
LoaderClsLoop(i, mode) ==
    IF all_boostrap_loader_cls[i] = mode \/ i = Len(all_boostrap_loader_cls)
    THEN all_boostrap_loader_cls[i]
    ELSE LoaderClsLoop(i + 1, mode)

(***************************************************************************)
(* Index documents and how the loaders read them                           *)
(***************************************************************************)
\* how many files a version record lists, how many versions a channel and
\* how many channels an index
MaxFiles == 2
MaxListed == 2
MaxChannels == 2

\* the sequences over S of length up to n
SeqsUpTo(S, n) == UNION {[1..k -> S] : k \in 0..n}

\* FileType: two of its members, by value
SDK_ZIP == "sdk_zip"
FileTypes == {SDK_ZIP, "lib_zip"}

\* an entry of "files" in the channel index
FileUrls == {"", "https://cdn.example.org/a.zip", "https://cdn.example.org/b.zip"}
FileEntries == [type : FileTypes, target : Targets, url : FileUrls]
FileLists == SeqsUpTo(FileEntries, MaxFiles)

\* an entry of "versions": version_info
NumberedVersions == {VersionNames[i] : i \in 1..NumVersions}
VersionRecords(lists) == [version : NumberedVersions, files : lists]
NoVersionInfo == [version |-> NoneV, files |-> <<>>]

\* the channel index: {"channels": [{"id", "versions": [...]}, ...]}
IndexChannelIds == {"release", "development"}
ChannelRecords ==
    [id : IndexChannelIds, versions : SeqsUpTo(VersionRecords({<<>>}), MaxListed)]
ChannelIndexes ==
    [served : {TRUE}, kind : {"json"}, anchors : {<<>>},
     channels : SeqsUpTo(ChannelRecords, MaxChannels)]
NoIndex == [served |-> FALSE, kind |-> NoneV, anchors |-> <<>>, channels |-> <<>>]

\* next((x for x in seq if ...), None), as the position of x in seq (0: None),
\* given the positions of the elements the generator lets through
FirstMatch(found) ==
    IF found = {} THEN 0 ELSE CHOOSE i \in found : \A j \in found : i <= j

\* fetch_version taking the last entry of versions
fetch_versionLast(data, channel) ==
    LET i == FirstMatch({k \in DOMAIN data.channels :
                            data.channels[k].id = UpdateChannel[channel]})
    IN  IF data.channels = <<>> \/ i = 0 \/ data.channels[i].versions = <<>>
        THEN [raises |-> TRUE, version_info |-> NoVersionInfo]
        ELSE [raises |-> FALSE,
              version_info |-> data.channels[i].versions[Len(data.channels[i].versions)]]

\* UpdateChannelSdkLoader._fetch_version(channel) on the parsed document data;
\* channel is the name of the UpdateChannel member
fetch_version(data, channel) ==
    IF data.channels = <<>>
    THEN [raises |-> TRUE, version_info |-> NoVersionInfo]      \* Invalid channel
    ELSE LET i == FirstMatch({k \in DOMAIN data.channels :
                                 data.channels[k].id = UpdateChannel[channel]})
         IN  IF i = 0
             THEN [raises |-> TRUE, version_info |-> NoVersionInfo]   \* Invalid channel
             ELSE IF data.channels[i].versions = <<>>
             THEN [raises |-> TRUE, version_info |-> NoVersionInfo]   \* Empty channel
             ELSE [raises |-> FALSE, version_info |-> data.channels[i].versions[1]]

NoFileInfo == [type |-> NoneV, target |-> NoneV, url |-> NoneV]

\* get_file_info taking the first entry of the file type, whatever its target
get_file_infoAnyTarget(version_data, file_type, file_target) ==
    LET i == FirstMatch({k \in DOMAIN version_data.files :
                            version_data.files[k].type = file_type})
    IN  IF i = 0
        THEN [raises |-> TRUE, file_info |-> NoFileInfo]
        ELSE [raises |-> FALSE, file_info |-> version_data.files[i]]

\* UpdateChannelSdkLoader._get_file_info(version_data, file_type, file_target)
get_file_info(version_data, file_type, file_target) ==
    IF version_data.files = <<>>
    THEN [raises |-> TRUE, file_info |-> NoFileInfo]            \* Empty files list
    ELSE LET i == FirstMatch({k \in DOMAIN version_data.files :
                                 /\ version_data.files[k].type = file_type
                                 /\ version_data.files[k].target = file_target})
         IN  IF i = 0
             THEN [raises |-> TRUE, file_info |-> NoFileInfo]    \* Invalid file type
             ELSE [raises |-> FALSE, file_info |-> version_data.files[i]]

\* BranchSdkLoader._branch_files: (file type, target) -> href.  The href under
\* a key is a name the pattern of LinkExtractor split into that type and target
BranchKeys == FileTypes \X Targets

BranchHref(key) ==
    CASE key = <<SDK_ZIP, "f7">> -> "flipper-z-f7-sdk-1.2.0.zip"
      [] key = <<SDK_ZIP, "f18">> -> "flipper-z-f18-sdk-1.2.0.zip"
      [] key = <<"lib_zip", "f7">> -> "flipper-z-f7-lib-1.2.0.zip"
      [] key = <<"lib_zip", "f18">> -> "flipper-z-f18-lib-1.2.0.zip"

NoBranchFiles == [k \in BranchKeys |-> Absent]
BranchFileMaps ==
    {[k \in BranchKeys |-> IF k \in present THEN BranchHref(k) ELSE Absent] :
        present \in SUBSET BranchKeys}

\* how many anchors a branch index page holds
MaxAnchors == 3

\* The version strings of the file names on a branch page, and
\* version.startswith(prefix) between them: "1.2" starts "1.2.0" and "1.2.1"
BranchVersions == {"1.2", "1.2.0", "1.2.1", "1.3.0"}
StartsWith(version, prefix) ==
    \/ version = prefix
    \/ prefix = "1.2" /\ version \in {"1.2.0", "1.2.1"}

\* The href of an <a> tag as FILE_NAME_RE and the ".map" test see it: matches
\* (the pattern matched), its groups target, type (file_type and ext joined
\* as FileType names are, lower case) and version, and map (".map" in href).
\* "sdk_txt" names no member of FileType.
HrefTypes == FileTypes \cup {"sdk_txt"}
OtherHref ==
    [matches |-> FALSE, target |-> NoneV, type |-> NoneV, version |-> NoneV,
     map |-> FALSE]
Hrefs ==
    {h \in [matches : {TRUE}, target : Targets, type : HrefTypes,
            version : BranchVersions, map : BOOLEAN] :
        h.map => (h.target = "f7" /\ h.type = SDK_ZIP)}
    \cup {OtherHref}

\* the text of an href the extractor stores
HrefName(h) ==
    CASE h.type = "sdk_zip" /\ h.target = "f7" /\ h.version = "1.2"
           -> "flipper-z-f7-sdk-1.2.zip"
      [] h.type = "sdk_zip" /\ h.target = "f18" /\ h.version = "1.2"
           -> "flipper-z-f18-sdk-1.2.zip"
      [] h.type = "lib_zip" /\ h.target = "f7" /\ h.version = "1.2"
           -> "flipper-z-f7-lib-1.2.zip"
      [] h.type = "lib_zip" /\ h.target = "f18" /\ h.version = "1.2"
           -> "flipper-z-f18-lib-1.2.zip"
      [] h.type = "sdk_zip" /\ h.target = "f7" /\ h.version = "1.2.0"
           -> "flipper-z-f7-sdk-1.2.0.zip"
      [] h.type = "sdk_zip" /\ h.target = "f18" /\ h.version = "1.2.0"
           -> "flipper-z-f18-sdk-1.2.0.zip"
      [] h.type = "lib_zip" /\ h.target = "f7" /\ h.version = "1.2.0"
           -> "flipper-z-f7-lib-1.2.0.zip"
      [] h.type = "lib_zip" /\ h.target = "f18" /\ h.version = "1.2.0"
           -> "flipper-z-f18-lib-1.2.0.zip"
      [] h.type = "sdk_zip" /\ h.target = "f7" /\ h.version = "1.2.1"
           -> "flipper-z-f7-sdk-1.2.1.zip"
      [] h.type = "sdk_zip" /\ h.target = "f18" /\ h.version = "1.2.1"
           -> "flipper-z-f18-sdk-1.2.1.zip"
      [] h.type = "lib_zip" /\ h.target = "f7" /\ h.version = "1.2.1"
           -> "flipper-z-f7-lib-1.2.1.zip"
      [] h.type = "lib_zip" /\ h.target = "f18" /\ h.version = "1.2.1"
           -> "flipper-z-f18-lib-1.2.1.zip"
      [] h.type = "sdk_zip" /\ h.target = "f7" /\ h.version = "1.3.0"
           -> "flipper-z-f7-sdk-1.3.0.zip"
      [] h.type = "sdk_zip" /\ h.target = "f18" /\ h.version = "1.3.0"
           -> "flipper-z-f18-sdk-1.3.0.zip"
      [] h.type = "lib_zip" /\ h.target = "f7" /\ h.version = "1.3.0"
           -> "flipper-z-f7-lib-1.3.0.zip"
      [] h.type = "lib_zip" /\ h.target = "f18" /\ h.version = "1.3.0"
           -> "flipper-z-f18-lib-1.3.0.zip"

\* the branch index page: its anchors in document order
BranchIndexes ==
    [served : {TRUE}, kind : {"html"}, anchors : SeqsUpTo(Hrefs, MaxAnchors),
     channels : {<<>>}]

\* LinkExtractor after reset(): files, version; raised once handle_starttag
\* raised RuntimeError, which ends feed()
NewExtractor == [files |-> NoBranchFiles, version |-> NoneV, raised |-> FALSE]

\* handle_starttag keeping the first version whatever the later ones are
handle_starttagFirstWins(self, href) ==
    IF self.raised \/ href.map \/ ~href.matches
    THEN self
    ELSE [self EXCEPT
            !.files = IF href.type \in FileTypes
                      THEN [self.files EXCEPT ![<<href.type, href.target>>] = HrefName(href)]
                      ELSE self.files,
            !.version = IF ~Truthy(self.version) THEN href.version ELSE self.version]

\* LinkExtractor.handle_starttag("a", [("href", href)])
handle_starttag(self, href) ==
    IF self.raised
    THEN self
    ELSE IF href.map
    THEN self
    ELSE IF ~href.matches
    THEN self
    ELSE LET stored ==
                 IF href.type \in FileTypes
                 THEN [self.files EXCEPT ![<<href.type, href.target>>] = HrefName(href)]
                 ELSE self.files
         IN  IF ~Truthy(self.version)
             THEN [self EXCEPT !.files = stored, !.version = href.version]
             ELSE IF ~StartsWith(href.version, self.version)
             THEN [self EXCEPT !.files = stored, !.raised = TRUE]
             ELSE [self EXCEPT !.files = stored]

\* extractor.feed(html): handle_starttag over the first n anchors, in order
RECURSIVE feed(_, _)
feed(anchors, n) ==
    IF n = 0 THEN NewExtractor ELSE handle_starttag(feed(anchors, n - 1), anchors[n])

\* a loader on its own: state is "none" (not constructed), "ready", "raised"
\* (the constructor raised), "fetched" or "fetch raised" (get_sdk_component
\* returned or raised for target); url is what it gave _fetch_file
NoProbe == [cls |-> NoneV, channel |-> NoneV, version_info |-> NoVersionInfo,
            branch_files |-> NoBranchFiles, version |-> NoneV, state |-> "none",
            target |-> NoneV, url |-> NoneV]

\* <cls>.get_sdk_component(target) up to the call of _fetch_file
get_sdk_component(loader, target) ==
    IF loader.cls = "channel"
    THEN LET r == get_file_info(loader.version_info, SDK_ZIP, target)
         IN  IF r.raises \/ ~Truthy(r.file_info.url)
             THEN [raises |-> TRUE, url |-> NoneV]      \* no entry, or Invalid file url
             ELSE [raises |-> FALSE, url |-> r.file_info.url]
    ELSE LET file_name == loader.branch_files[<<SDK_ZIP, target>>]
         IN  IF ~Truthy(file_name)
             THEN [raises |-> TRUE, url |-> NoneV]      \* SDK bundle not found
             ELSE [raises |-> FALSE, url |-> file_name]

(***************************************************************************)
(* State                                                                   *)
(***************************************************************************)
VARIABLES
    current_sdk_dir,     \* <state dir>/current: [exists, complete, sdk]
    state_file,          \* <state dir>/current/ufbt_state.json: [exists, data]
    download_dir,        \* <state dir>/download: the names of the files in it
    pc,                  \* where the running command stands
    cmd,                 \* the subcommand of the last started invocation
    args,                \* its parsed command line (update)
    task,                \* task_to_deploy
    sdk_loader,          \* deploy(): sdk_loader
    sdk_component_path,  \* deploy(): sdk_component_path
    retcode,             \* exit status of the invocation, -1 while it runs
    logged,              \* the message the command ended with
    pre,                 \* history: current_sdk_dir and state_file when it started
    index,               \* the document an update server answers with
    probe,               \* a loader examined on its own, outside deploy()
    peer,                \* of two invocations at once, the one not running now
    wait_status          \* ufbt_cli: what os.system returned, -1 before it has

vars == <<current_sdk_dir, state_file, download_dir, pc, cmd, args, task,
          sdk_loader, sdk_component_path, retcode, logged, pre, index, probe, peer,
          wait_status>>

\* what a step of the running command leaves alone: the examination of a
\* loader on its own, the invocation that is not running now, and the build
\* that ufbt_cli delegates
indexing == <<index, probe, peer, wait_status>>

fs == <<current_sdk_dir, state_file, download_dir>>
locals == <<task, sdk_loader, sdk_component_path>>

\* a local file path: the directory it is in and its name
NoName == <<NoneV, NoneV>>
NoPath == [dir |-> NoneV, name |-> NoName]

\* current/ does not exist.  Of an existing one: complete says that the whole
\* archive was extracted, sdk which archive (the loader class and the path)
NoSdk == [src |-> NoneV, path |-> NoPath]
NoSdkDir == [exists |-> FALSE, complete |-> FALSE, sdk |-> NoSdk]
NoStateFile == [exists |-> FALSE, data |-> EmptyDict]

NoArgs == [hw_target |-> NoneV, force |-> FALSE, index_url |-> NoneV,
           branch |-> NoneV, channel |-> NoneV, url |-> NoneV, local |-> NoneV,
           purge |-> FALSE, downloads |-> FALSE]

\* how many archives the download directory has room for
DownloadCapacity == 1

\* the exit status bootstrap_cli gives an exception (without --verbose)
ExceptionStatus == 2

NoPre == [current_sdk_dir |-> NoSdkDir, state_file |-> NoStateFile]

\* the memory of a process that has not started a command
NoPeer == [pc |-> "idle", cmd |-> "none", args |-> NoArgs, task |-> NewTask,
           sdk_loader |-> NoLoader, sdk_component_path |-> NoPath,
           retcode |-> -1, logged |-> "", pre |-> NoPre]

Init ==
    /\ current_sdk_dir = NoSdkDir
    /\ state_file = NoStateFile
    /\ download_dir = {}
    /\ pc = "idle"
    /\ cmd = "none"
    /\ args = NoArgs
    /\ task = NewTask
    /\ sdk_loader = NoLoader
    /\ sdk_component_path = NoPath
    /\ retcode = -1
    /\ logged = ""
    /\ pre = NoPre
    /\ index = NoIndex
    /\ probe = NoProbe
    /\ peer = NoPeer
    /\ wait_status = -1

\* no invocation is running
AtPrompt == pc = "idle"

\* the command logs its last message and returns the status to sys.exit
Exit(status, message) ==
    /\ pc' = "done"
    /\ retcode' = status
    /\ logged' = message

\* the command goes on
Goto(label) ==
    /\ pc' = label
    /\ UNCHANGED <<retcode, logged>>

\* Raise with the handler falling off its end: sys.exit(None or 0)
RaiseSwallowed == Exit(0, "Failed to run operation")

\* bootstrap_cli: an exception leaves the subcommand (without --verbose)
Raise == Exit(ExceptionStatus, "Failed to run operation")

\* the process is gone, and its memory with it; the state directory stays
ProcessExit ==
    /\ pc = "done"
    /\ pc' = "idle"
    /\ cmd' = "none"
    /\ args' = NoArgs
    /\ task' = NewTask
    /\ sdk_loader' = NoLoader
    /\ sdk_component_path' = NoPath
    /\ retcode' = -1
    /\ logged' = ""
    /\ pre' = NoPre
    /\ UNCHANGED fs
    /\ UNCHANGED indexing

(***************************************************************************)
(* update                                                                  *)
(***************************************************************************)
\* UfbtSdkDeployer.get_previous_task(), and whether it is not None
HasPreviousTask == state_file.exists
get_previous_task == from_dict(state_file.data)

\* task_to_deploy without the fallback to the default task
task_to_deployNoDefault(a) ==
    LET current_task == from_args(a)
    IN  IF HasPreviousTask
        THEN update_from(get_previous_task, current_task)
        ELSE current_task

\* UpdateSubcommand._func up to the call of deploy: the task to deploy
task_to_deploy(a) ==
    LET current_task == from_args(a)
    IN  IF HasPreviousTask
        THEN update_from(get_previous_task, current_task)
        ELSE IF Truthy(current_task.mode) THEN current_task ELSE default

UpdateBegin(a) ==
    /\ AtPrompt
    /\ cmd' = "update"
    /\ args' = a
    /\ task' = task_to_deploy(a)
    /\ sdk_loader' = NoLoader
    /\ sdk_component_path' = NoPath
    /\ retcode' = -1
    /\ logged' = ""
    /\ pc' = "create"
    /\ pre' = [current_sdk_dir |-> current_sdk_dir, state_file |-> state_file]
    /\ UNCHANGED fs
    /\ UNCHANGED indexing

\* deploy(): SdkLoaderFactory.create_for_task.  The constructor of a branch or
\* channel loader fetches and parses the index: it raises (unreachable,
\* malformed, unknown or empty channel, conflicting versions) or leaves the
\* version and the files the index lists.
CreateLoader ==
    /\ pc = "create"
    /\ LET loader_cls == LoaderClsLoop(1, task.mode)
           ctor == metadata_to_init_kwargs(loader_cls, task.all_params)
       IN  IF ctor.raises
           THEN /\ Raise
                /\ UNCHANGED sdk_loader
           ELSE IF loader_cls \in {"branch", "channel"}
           THEN \/ /\ Raise
                   /\ UNCHANGED sdk_loader
                \/ \E v \in Versions, files \in SUBSET Targets :
                      /\ sdk_loader' = LoaderInit(loader_cls, ctor.kwargs, v, files)
                      /\ Goto("check")
                \/ /\ loader_cls = "branch"
                   \* an index without a single matching anchor
                   /\ sdk_loader' = LoaderInit(loader_cls, ctor.kwargs, NoneV, {})
                   /\ Goto("check")
           ELSE /\ sdk_loader' = LoaderInit(loader_cls, ctor.kwargs, NoneV, {})
                /\ Goto("check")
    /\ UNCHANGED <<fs, cmd, args, task, sdk_component_path, pre>>
    /\ UNCHANGED indexing

\* IsUpToDate comparing the versions only
IsUpToDateVersionOnly ==
    /\ state_file.data["version"] \notin ALWAYS_UPDATE_VERSIONS
    /\ DictGet(state_file.data, "version", NoneV)
          = DictGet(get_metadata(sdk_loader), "version", NoneV)

\* IsUpToDate with the hardware target looked up in the loader's metadata
IsUpToDateWrongDict ==
    /\ state_file.data["version"] \notin ALWAYS_UPDATE_VERSIONS
    /\ DictGet(state_file.data, "version", NoneV)
          = DictGet(get_metadata(sdk_loader), "version", NoneV)
    /\ DictGet(state_file.data, "hw_target", NoneV)
          = DictGet(get_metadata(sdk_loader), "hw_target", NoneV)

\* deploy(): the staleness decision
IsUpToDate ==
    /\ state_file.data["version"] \notin ALWAYS_UPDATE_VERSIONS
    /\ DictGet(state_file.data, "version", NoneV)
          = DictGet(get_metadata(sdk_loader), "version", NoneV)
    /\ DictGet(state_file.data, "hw_target", NoneV) = task.hw_target

\* CheckUpToDate behind a lock on the state directory: it waits while the
\* other invocation is between its own check and the end of its deployment
CheckUpToDateLocked ==
    /\ pc = "check"
    /\ peer.pc \notin {"fetch", "rmtree", "extract", "write"}
    /\ IF ~task.force /\ current_sdk_dir.exists
       THEN IF ~state_file.exists
            THEN Raise
            ELSE IF IsUpToDate
                 THEN Exit(0, "SDK is up-to-date")
                 ELSE Goto("fetch")
       ELSE Goto("fetch")
    /\ UNCHANGED <<fs, cmd, args, locals, pre>>
    /\ UNCHANGED indexing

CheckUpToDate ==
    /\ pc = "check"
    /\ IF ~task.force /\ current_sdk_dir.exists
       THEN IF ~state_file.exists
            THEN Raise                        \* open(state_file) raises
            ELSE IF IsUpToDate
                 THEN Exit(0, "SDK is up-to-date")
                 ELSE Goto("fetch")
       ELSE Goto("fetch")
    /\ UNCHANGED <<fs, cmd, args, locals, pre>>
    /\ UNCHANGED indexing

\* the file name _fetch_file derives from the URL of the SDK archive of a
\* target: an index names its archives by target and version
ArchiveName(loader, target) ==
    IF loader.cls \in {"branch", "channel"}
    THEN <<target, loader.version>>
    ELSE <<"url", loader.url>>

\* get_sdk_component raises before it fetches anything: the index has no
\* (usable) SDK archive entry for the target
ComponentMissing(loader, target) ==
    /\ loader.cls \in {"branch", "channel"}
    /\ target \notin loader.files

\* FetchFailed with the removal of the directory moved ahead of the fetch
FetchFailedAfterRemoval ==
    /\ Exit(1, "Failed to fetch SDK")
    /\ current_sdk_dir' = NoSdkDir
    /\ state_file' = NoStateFile
    /\ UNCHANGED sdk_component_path

\* FetchFailed with the except branch logging without returning
FetchFailedFallsThrough ==
    /\ Goto("rmtree")
    /\ UNCHANGED <<sdk_component_path, current_sdk_dir, state_file>>

\* deploy(): the except branch around get_sdk_component
FetchFailed ==
    /\ Exit(1, "Failed to fetch SDK")
    /\ UNCHANGED <<sdk_component_path, current_sdk_dir, state_file>>

\* deploy(): sdk_loader.get_sdk_component(task.hw_target) inside try/except
FetchComponent ==
    /\ pc = "fetch"
    /\ IF sdk_loader.cls = "local"
       THEN /\ sdk_component_path' = [dir |-> "local", name |-> <<"local", sdk_loader.file_path>>]
            /\ Goto("rmtree")
            /\ UNCHANGED fs
       ELSE IF ComponentMissing(sdk_loader, task.hw_target)
       THEN /\ FetchFailed
            /\ UNCHANGED download_dir
       ELSE LET file_name == ArchiveName(sdk_loader, task.hw_target)
                has_room == Cardinality(download_dir \cup {file_name}) <= DownloadCapacity
            IN  \* _fetch_file: the URL cannot be opened, or the file not created
                \/ /\ FetchFailed
                   /\ UNCHANGED download_dir
                \* _fetch_file: the read fails, the opened file stays behind
                \/ /\ has_room
                   /\ FetchFailed
                   /\ download_dir' = download_dir \cup {file_name}
                \/ /\ has_room
                   /\ sdk_component_path' = [dir |-> "download", name |-> file_name]
                   /\ download_dir' = download_dir \cup {file_name}
                   /\ Goto("rmtree")
                   /\ UNCHANGED <<current_sdk_dir, state_file>>
    /\ UNCHANGED <<cmd, args, task, sdk_loader, pre>>
    /\ UNCHANGED indexing

\* RemoveSdkDir with the state file kept outside the removed directory
RemoveSdkDirKeepsState ==
    /\ pc = "rmtree"
    /\ current_sdk_dir' = NoSdkDir
    /\ Goto("extract")
    /\ UNCHANGED <<state_file, download_dir, cmd, args, locals, pre>>
    /\ UNCHANGED indexing

\* deploy(): shutil.rmtree(sdk_target_dir, ignore_errors=True)
RemoveSdkDir ==
    /\ pc = "rmtree"
    /\ current_sdk_dir' = NoSdkDir
    /\ state_file' = NoStateFile
    /\ Goto("extract")
    /\ UNCHANGED <<download_dir, cmd, args, locals, pre>>
    /\ UNCHANGED indexing

\* deploy(): ZipFile(sdk_component_path).extractall(sdk_target_dir)
ExtractSdk ==
    /\ pc = "extract"
    /\ \/ /\ current_sdk_dir' = [exists |-> TRUE, complete |-> TRUE,
                                 sdk |-> [src |-> sdk_loader.cls, path |-> sdk_component_path]]
          /\ Goto("write")
       \* the file is missing or no archive: ZipFile() raises
       \/ /\ Raise
          /\ UNCHANGED current_sdk_dir
       \* a member of the archive is broken: extractall raises part way
       \/ /\ Raise
          /\ current_sdk_dir' = [exists |-> TRUE, complete |-> FALSE,
                                 sdk |-> [src |-> sdk_loader.cls, path |-> sdk_component_path]]
    /\ UNCHANGED <<state_file, download_dir, cmd, args, locals, pre>>
    /\ UNCHANGED indexing

\* ufbt_state built on the merged parameters of the task
ufbt_stateAllParams(t, loader) ==
    DictUpdate([t.all_params EXCEPT !["hw_target"] = t.hw_target], get_metadata(loader))

\* deploy(): the ufbt_state dict
ufbt_state(t, loader) ==
    DictUpdate([EmptyDict EXCEPT !["hw_target"] = t.hw_target], get_metadata(loader))

\* deploy(): json.dump(ufbt_state, state_file); return True
WriteState ==
    /\ pc = "write"
    /\ IF current_sdk_dir.exists
       THEN /\ state_file' = [exists |-> TRUE, data |-> ufbt_state(task, sdk_loader)]
            /\ Exit(0, "SDK deployed.")
       \* the directory is gone: open(state_file, "w") raises
       ELSE /\ Raise
            /\ UNCHANGED state_file
    /\ UNCHANGED <<current_sdk_dir, download_dir, cmd, args, locals, pre>>
    /\ UNCHANGED indexing

(***************************************************************************)
(* clean, status                                                           *)
(***************************************************************************)
BeginOther(name) ==
    /\ AtPrompt
    /\ cmd' = name
    /\ sdk_loader' = NoLoader
    /\ sdk_component_path' = NoPath
    /\ pre' = [current_sdk_dir |-> current_sdk_dir, state_file |-> state_file]

\* Clean with the two branches of `if args.downloads` the other way round
CleanSwapped(purge, downloads) ==
    /\ BeginOther("clean")
    /\ args' = [NoArgs EXCEPT !.purge = purge, !.downloads = downloads]
    /\ IF purge
       THEN /\ current_sdk_dir' = NoSdkDir
            /\ state_file' = NoStateFile
            /\ download_dir' = {}
       ELSE IF downloads
       THEN /\ current_sdk_dir' = NoSdkDir
            /\ state_file' = NoStateFile
            /\ UNCHANGED download_dir
       ELSE /\ download_dir' = {}
            /\ UNCHANGED <<current_sdk_dir, state_file>>
    /\ task' = NewTask
    /\ Exit(0, "Done")
    /\ UNCHANGED indexing

\* Clean removing the whole state directory whatever the flags
CleanPurgeAlways(purge, downloads) ==
    /\ BeginOther("clean")
    /\ args' = [NoArgs EXCEPT !.purge = purge, !.downloads = downloads]
    /\ current_sdk_dir' = NoSdkDir
    /\ state_file' = NoStateFile
    /\ download_dir' = {}
    /\ task' = NewTask
    /\ Exit(0, "Done")
    /\ UNCHANGED indexing

\* CleanSubcommand._func
Clean(purge, downloads) ==
    /\ BeginOther("clean")
    /\ args' = [NoArgs EXCEPT !.purge = purge, !.downloads = downloads]
    /\ IF purge
       THEN /\ current_sdk_dir' = NoSdkDir
            /\ state_file' = NoStateFile
            /\ download_dir' = {}
       ELSE IF downloads
       THEN /\ download_dir' = {}
            /\ UNCHANGED <<current_sdk_dir, state_file>>
       ELSE /\ current_sdk_dir' = NoSdkDir
            /\ state_file' = NoStateFile
            /\ UNCHANGED download_dir
    /\ task' = NewTask
    /\ Exit(0, "Done")
    /\ UNCHANGED indexing

\* Status reading the state file without looking whether it exists
StatusOpensFile ==
    /\ BeginOther("status")
    /\ args' = NoArgs
    /\ IF HasPreviousTask
       THEN /\ task' = get_previous_task
            /\ Exit(0, "Details")
       ELSE /\ task' = NewTask
            /\ Raise
    /\ UNCHANGED fs
    /\ UNCHANGED indexing

\* StatusSubcommand._func; task is previous_task, whose hw_target, mode and
\* all_params (version, details) it logs
Status ==
    /\ BeginOther("status")
    /\ args' = NoArgs
    /\ IF HasPreviousTask
       THEN /\ task' = get_previous_task
            /\ Exit(0, "Details")
       ELSE /\ task' = NewTask
            /\ Exit(1, "SDK is not deployed")
    /\ UNCHANGED fs
    /\ UNCHANGED indexing

Next ==
    \/ \E a \in UpdateArgs : UpdateBegin(a)
    \/ CreateLoader
    \/ CheckUpToDate
    \/ FetchComponent
    \/ RemoveSdkDir
    \/ ExtractSdk
    \/ WriteState
    \/ \E purge, downloads \in BOOLEAN : Clean(purge, downloads)
    \/ Status
    \/ ProcessExit

Spec == Init /\ [][Next]_vars

(***************************************************************************)
(* The reconciliation of a request with a state file, on its own: update   *)
(* invocations with every command line, --index-url included, on the state *)
(* directories that a first successful update leaves.                      *)
(***************************************************************************)
WideIndexUrls == {NoneV, "https://mirror.example.org/index"}

WideUpdateArgs ==
    {[hw_target |-> t, force |-> f, index_url |-> u,
      branch |-> m.branch, channel |-> m.channel, url |-> m.url, local |-> m.local,
      purge |-> FALSE, downloads |-> FALSE] :
        t \in Targets \cup {NoneV}, f \in BOOLEAN, u \in WideIndexUrls, m \in ModeArgs}

\* the path get_sdk_component returns for a target
ComponentPath(loader, target) ==
    IF loader.cls = "local"
    THEN [dir |-> "local", name |-> <<"local", loader.file_path>>]
    ELSE [dir |-> "download", name |-> ArchiveName(loader, target)]

\* the state directory after `update` with command line a, on an empty state
\* directory, has deployed version v
InitMerge ==
    /\ \E a \in WideUpdateArgs, v \in Versions :
          /\ Truthy(from_args(a).mode)
          /\ LET t == from_args(a)
                 l == LoaderInit(t.mode, metadata_to_init_kwargs(t.mode, t.all_params).kwargs,
                                 v, Targets)
                 path == ComponentPath(l, t.hw_target)
             IN  /\ current_sdk_dir = [exists |-> TRUE, complete |-> TRUE,
                                       sdk |-> [src |-> l.cls, path |-> path]]
                 /\ state_file = [exists |-> TRUE, data |-> ufbt_state(t, l)]
                 /\ download_dir = IF l.cls = "local" THEN {} ELSE {path.name}
    /\ pc = "idle"
    /\ cmd = "none"
    /\ args = NoArgs
    /\ task = NewTask
    /\ sdk_loader = NoLoader
    /\ sdk_component_path = NoPath
    /\ retcode = -1
    /\ logged = ""
    /\ pre = NoPre
    /\ index = NoIndex
    /\ probe = NoProbe
    /\ peer = NoPeer
    /\ wait_status = -1

NextMerge == \E a \in WideUpdateArgs : UpdateBegin(a)

SpecMerge == InitMerge /\ [][NextMerge]_vars

(***************************************************************************)
(* The loaders on their own: a channel loader constructed on each channel  *)
(* index, and get_sdk_component of constructed channel and branch loaders. *)
(***************************************************************************)
main == <<current_sdk_dir, state_file, download_dir, pc, cmd, args, task,
          sdk_loader, sdk_component_path, retcode, logged, pre>>

\* loaders as their constructors leave them
ConstructedLoaders ==
    {[NoProbe EXCEPT !.cls = "channel", !.channel = ch, !.version_info = vi,
                     !.state = "ready"] :
        ch \in DOMAIN UpdateChannel, vi \in VersionRecords(FileLists)}
    \cup
    {[NoProbe EXCEPT !.cls = "branch", !.branch_files = bf, !.state = "ready"] :
        bf \in BranchFileMaps}

InitIndex ==
    /\ current_sdk_dir = NoSdkDir
    /\ state_file = NoStateFile
    /\ download_dir = {}
    /\ pc = "idle"
    /\ cmd = "none"
    /\ args = NoArgs
    /\ task = NewTask
    /\ sdk_loader = NoLoader
    /\ sdk_component_path = NoPath
    /\ retcode = -1
    /\ logged = ""
    /\ pre = NoPre
    /\ \/ index \in ChannelIndexes /\ probe = NoProbe
       \/ index \in BranchIndexes /\ probe = NoProbe
       \/ index = NoIndex /\ probe \in ConstructedLoaders
    /\ peer = NoPeer
    /\ wait_status = -1

\* UpdateChannelSdkLoader.__init__(download_dir, channel) against the index
ConstructChannelLoader(channel) ==
    /\ index.served
    /\ index.kind = "json"
    /\ probe.state = "none"
    /\ LET r == fetch_version(index, channel)
       IN  probe' = [probe EXCEPT !.cls = "channel", !.channel = channel,
                                  !.version_info = r.version_info,
                                  !.state = IF r.raises THEN "raised" ELSE "ready"]
    /\ UNCHANGED <<index, peer, wait_status, main>>

\* BranchSdkLoader.__init__(download_dir, branch): _fetch_branch feeds the
\* page to a LinkExtractor and keeps its files and version
ConstructBranchLoader ==
    /\ index.served
    /\ index.kind = "html"
    /\ probe.state = "none"
    /\ LET extractor == feed(index.anchors, Len(index.anchors))
       IN  probe' = IF extractor.raised
                    THEN [probe EXCEPT !.cls = "branch", !.state = "raised"]
                    ELSE [probe EXCEPT !.cls = "branch",
                                       !.branch_files = extractor.files,
                                       !.version = extractor.version,
                                       !.state = "ready"]
    /\ UNCHANGED <<index, peer, wait_status, main>>

\* loader.get_sdk_component(target); _fetch_file returns or raises
GetSdkComponent(target) ==
    /\ probe.state = "ready"
    /\ LET r == get_sdk_component(probe, target)
       IN  IF r.raises
           THEN probe' = [probe EXCEPT !.state = "fetch raised", !.target = target]
           ELSE \E outcome \in {"fetched", "fetch raised"} :
                   probe' = [probe EXCEPT !.state = outcome, !.target = target,
                                          !.url = r.url]
    /\ UNCHANGED <<index, peer, wait_status, main>>

NextIndex ==
    \/ \E channel \in DOMAIN UpdateChannel : ConstructChannelLoader(channel)
    \/ ConstructBranchLoader
    \/ \E target \in Targets : GetSdkComponent(target)

SpecIndex == InitIndex /\ [][NextIndex]_vars

(***************************************************************************)
(* Properties                                                              *)
(***************************************************************************)
\* an update invocation has ended
UpdateDone == pc = "done" /\ cmd = "update"

\* the deployed directory and the state file are as when the invocation began
DeploymentUntouched ==
    /\ current_sdk_dir = pre.current_sdk_dir
    /\ state_file = pre.state_file

\* a complete deployment: a fully extracted SDK and the state file written
\* for it
Deployed(dir, sf) ==
    /\ dir.exists
    /\ dir.complete
    /\ sf.exists
    /\ sf.data["mode"] = dir.sdk.src
    /\ dir.sdk.src \in {"branch", "channel"} =>
          dir.sdk.path.name = <<sf.data["hw_target"], sf.data["version"]>>

\* the version the loader of this invocation resolved
ResolvedVersion == DictGet(get_metadata(sdk_loader), "version", NoneV)

\* the command line carries no mode option and no index URL
NoModeRequested(a) ==
    /\ from_args(a).mode = NoneV
    /\ a.index_url = NoneV

\* `update` without any option
BareUpdate(a) == NoModeRequested(a) /\ a.hw_target = NoneV /\ ~a.force

\* C1: whenever get_sdk_component fails, the update returns a non-zero status
\* and the deployed directory and the state file are as before the call.
C1_FetchFailureLeavesDeployment ==
    (UpdateDone /\ logged = "Failed to fetch SDK") =>
        (retcode # 0 /\ DeploymentUntouched)

C1_Witness ==
    /\ UpdateDone
    /\ logged = "Failed to fetch SDK"
    /\ Deployed(pre.current_sdk_dir, pre.state_file)

\* C2: a step of update changes the deployed directory or the state file only
\* after get_sdk_component has returned a path in that invocation.
C2_RemovalAndWriteOnlyAfterFetch ==
    [][(/\ cmd = "update"
        /\ \/ current_sdk_dir' # current_sdk_dir
           \/ state_file' # state_file)
       => (/\ sdk_component_path # NoPath
           /\ pc \in {"rmtree", "extract", "write"})]_vars

C2_Witness ==
    /\ UpdateDone
    /\ logged = "SDK deployed."
    /\ sdk_component_path # NoPath
    /\ pre.current_sdk_dir.exists
    /\ state_file # pre.state_file

\* C3: in every state of an update that began with a complete deployment, a
\* complete deployment (the previous one or the new one) is on disk.
C3_AlwaysADeployment ==
    (cmd = "update" /\ Deployed(pre.current_sdk_dir, pre.state_file)) =>
        Deployed(current_sdk_dir, state_file)

\* C4: when no loader can be constructed for the task, the update returns a
\* non-zero status and the deployed directory and the state file are as before.
C4_ResolveFailureAborts ==
    (UpdateDone /\ sdk_loader = NoLoader) =>
        (retcode # 0 /\ DeploymentUntouched)

C4_Witness ==
    /\ UpdateDone
    /\ sdk_loader = NoLoader
    /\ task.mode \in {"branch", "channel"}
    /\ Deployed(pre.current_sdk_dir, pre.state_file)

\* the skip condition as the specification words it
SkipCondition ==
    /\ ~task.force
    /\ current_sdk_dir.exists
    /\ state_file.exists
    /\ state_file.data["version"] \notin ALWAYS_UPDATE_VERSIONS
    /\ state_file.data["version"] = ResolvedVersion
    /\ state_file.data["hw_target"] = task.hw_target

\* C5: once the loader is constructed, deploy ends up-to-date without touching
\* anything exactly when the skip condition holds, and goes on to
\* get_sdk_component in every other case.
C5_SkipExactlyWhenUpToDate ==
    [][pc = "check" =>
          IF SkipCondition
          THEN /\ pc' = "done"
               /\ retcode' = 0
               /\ logged' = "SDK is up-to-date"
               /\ UNCHANGED fs
          ELSE pc' = "fetch"]_vars

\* what a deploy of task t through loader l that returned success leaves
LeftByDeploy(dir, sf, t, l) ==
    /\ dir.exists
    /\ sf.exists
    /\ sf.data["version"] = DictGet(get_metadata(l), "version", NoneV)
    /\ sf.data["hw_target"] = t.hw_target

\* the second of two calls: it finds what a deploy of its own task and
\* resolved version has left
SecondCall ==
    /\ cmd = "update"
    /\ pc # "done"
    /\ sdk_loader.cls \in {"branch", "channel"}
    /\ LeftByDeploy(pre.current_sdk_dir, pre.state_file, task, sdk_loader)

\* the first of two calls returns success
FirstCallEnds == pc' = "done" /\ cmd' = "update" /\ retcode' = 0

\* C6 as stated: the second call changes nothing on disk, whatever the force
\* flag and the version.
C6_SecondDeployMutatesNothing ==
    [][/\ FirstCallEnds =>
            LeftByDeploy(current_sdk_dir', state_file', task', sdk_loader')
       /\ SecondCall => UNCHANGED fs]_vars

\* C6 amended: a deploy that returns success leaves the directory and a state
\* file with its hardware target and resolved version; a deploy of a task
\* without force through a branch or channel loader that finds them so, with
\* a version that is no sentinel, ends up-to-date and changes nothing on disk.
C6_SecondUnforcedDeployMutatesNothing ==
    [][/\ FirstCallEnds =>
            LeftByDeploy(current_sdk_dir', state_file', task', sdk_loader')
       /\ (SecondCall /\ ~task.force /\ ResolvedVersion \notin ALWAYS_UPDATE_VERSIONS) =>
            (/\ UNCHANGED fs
             /\ pc' = "done"
             /\ retcode' = 0
             /\ logged' = "SDK is up-to-date")]_vars

C6_Witness ==
    /\ UpdateDone
    /\ logged = "SDK is up-to-date"
    /\ sdk_loader.cls \in {"branch", "channel"}
    /\ state_file.data = ufbt_state(task, sdk_loader)

\* C7 (for bare updates that return success): a bare update on a deployment,
\* its source resolving to the persisted version, leaves the state file as it
\* was.
C7_BareUpdateKeepsState ==
    (/\ UpdateDone
     /\ retcode = 0
     /\ BareUpdate(args)
     /\ Deployed(pre.current_sdk_dir, pre.state_file)
     /\ ResolvedVersion = pre.state_file.data["version"])
    => state_file = pre.state_file

\* C8: an update on an existing state file whose command line names no
\* hardware target works on, and persists, the persisted hardware target.
C8_TargetKeptWhenNotRequested ==
    (/\ cmd = "update"
     /\ pre.state_file.exists
     /\ ~Truthy(args.hw_target))
    => /\ task.hw_target = pre.state_file.data["hw_target"]
       /\ state_file.exists => state_file.data["hw_target"] = pre.state_file.data["hw_target"]

\* C9: after a successful update on an existing state file whose command line
\* names a hardware target and nothing else, the state file has that target,
\* and the mode and every other field but the version as before.
C9_TargetOnlyKeepsMode ==
    (/\ UpdateDone
     /\ retcode = 0
     /\ pre.state_file.exists
     /\ Truthy(args.hw_target)
     /\ NoModeRequested(args))
    => /\ state_file.exists
       /\ state_file.data["hw_target"] = args.hw_target
       /\ \A k \in Keys \ {"hw_target", "version"} :
             state_file.data[k] = pre.state_file.data[k]

C9_Witness ==
    /\ UpdateDone
    /\ retcode = 0
    /\ logged = "SDK deployed."
    /\ NoModeRequested(args)
    /\ pre.state_file.exists
    /\ pre.state_file.data["mode"] = "branch"
    /\ Truthy(args.hw_target)
    /\ args.hw_target # pre.state_file.data["hw_target"]

\* C10: after a successful update that requests a mode other than the
\* persisted one, the state file has the requested mode, its parameters and
\* the version resolved through it.
C10_ModeSwitchIsPersisted ==
    (/\ UpdateDone
     /\ retcode = 0
     /\ pre.state_file.exists
     /\ Truthy(from_args(args).mode)
     /\ from_args(args).mode # pre.state_file.data["mode"])
    => /\ state_file.exists
       /\ state_file.data["mode"] = from_args(args).mode
       /\ state_file.data = ufbt_state(task, sdk_loader)

\* the request of this invocation, as from_args builds it
Requested == from_args(args)

\* an update that found no state file
FirstUpdate == cmd = "update" /\ ~pre.state_file.exists

\* C11: an update that finds no state file deploys exactly the request when
\* the request names a mode; when it names none it deploys hardware target f7,
\* mode channel, channel release, whatever else the request says, and a
\* successful one persists f7, channel, release.
C11_FirstUpdateTask ==
    FirstUpdate =>
        IF Truthy(Requested.mode)
        THEN task = Requested
        ELSE /\ task.hw_target = "f7"
             /\ task.mode = "channel"
             /\ task.all_params = [EmptyDict EXCEPT !["channel"] = "release"]
             /\ (UpdateDone /\ retcode = 0) =>
                   /\ state_file.exists
                   /\ state_file.data["hw_target"] = "f7"
                   /\ state_file.data["mode"] = "channel"
                   /\ state_file.data["channel"] = "release"

C11_Witness ==
    /\ FirstUpdate
    /\ UpdateDone
    /\ retcode = 0
    /\ ~Truthy(Requested.mode)
    /\ args.hw_target = "f18"
    /\ state_file.data["hw_target"] = "f7"

\* C12: an update on an existing state file whose command line names neither
\* a mode nor a hardware target deploys the persisted task (hardware target,
\* mode and parameters) with the force flag of the request.
C12_MergeKeepsPersisted ==
    (/\ cmd = "update"
     /\ pre.state_file.exists
     /\ ~Truthy(Requested.mode)
     /\ ~Truthy(args.hw_target))
    => task = [from_dict(pre.state_file.data) EXCEPT !.force = args.force]

\* C13: in the task merged from a state file and a request, every key holds
\* the request's value where that value is non-empty and the stored value
\* otherwise; no stored key is lost, whether or not the mode changes.
C13_MergedParams ==
    (cmd = "update" /\ pre.state_file.exists) =>
        /\ \A k \in Keys :
              task.all_params[k] =
                  IF Truthy(Requested.all_params[k])
                  THEN Requested.all_params[k]
                  ELSE pre.state_file.data[k]
        /\ \A k \in Keys :
              pre.state_file.data[k] # Absent => task.all_params[k] # Absent

C13_Witness ==
    /\ cmd = "update"
    /\ pre.state_file.data["mode"] = "branch"
    /\ Requested.mode = "channel"
    /\ Truthy(args.index_url)
    /\ task.all_params["branch"] = "dev"
    /\ task.all_params["branch_root"] = args.index_url
    /\ task.all_params["branch_root"] # pre.state_file.data["branch_root"]

\* C14: the task of every update carries the force flag of its command line,
\* and a forced update goes from the constructed loader straight on to
\* get_sdk_component, whatever is deployed.
C14_ForceFromRequest ==
    [][/\ cmd' = "update" => task'.force = args'.force
       /\ (pc = "check" /\ args.force) => pc' = "fetch"]_vars

\* a forced update ended in the staleness check
C14_ForcedUpdateStopsInCheck ==
    /\ UpdateDone
    /\ args.force
    /\ sdk_loader # NoLoader
    /\ sdk_component_path = NoPath
    /\ logged = "Failed to run operation"

\* the keys a loader class adds to mode and version in its metadata
ModeFields(cls) ==
    CASE cls = "branch" -> {"branch", "branch_root"}
      [] cls = "channel" -> {"channel", "index_html"}
      [] cls = "url" -> {"url"}
      [] cls = "local" -> {"file_path"}

\* C15: after an update that redeployed, the state file holds the hardware
\* target of the task, the mode and version of the loader used and that
\* loader's own fields, and no other key.
C15_StateFileContents ==
    (UpdateDone /\ logged = "SDK deployed.") =>
        LET d == state_file.data
            l == sdk_loader
        IN  /\ state_file.exists
            /\ d["hw_target"] = task.hw_target
            /\ d["mode"] = l.cls
            /\ d["version"] = IF l.cls \in {"branch", "channel"} THEN l.version
                              ELSE VERSION_UNKNOWN
            /\ l.cls = "branch" =>
                  d["branch"] = l.branch /\ d["branch_root"] = l.branch_root
            /\ l.cls = "channel" =>
                  /\ d["channel"] \in {"dev", "rc", "release"}
                  /\ UpdateChannel[Upper(d["channel"])] = UpdateChannel[l.channel]
                  /\ d["index_html"] = l.index_html_url
            /\ l.cls = "url" => d["url"] = l.url
            /\ l.cls = "local" => d["file_path"] = l.file_path
            /\ \A k \in Keys \ ({"hw_target", "mode", "version"} \cup ModeFields(l.cls)) :
                  d[k] = Absent

\* channel release resolving to 1.2.0 for f7, after another mode was deployed
C15_Witness ==
    /\ UpdateDone
    /\ logged = "SDK deployed."
    /\ task.all_params["branch"] = "dev"
    /\ state_file.data =
          [EmptyDict EXCEPT !["mode"] = "channel", !["channel"] = "release",
                            !["version"] = "1.2.0", !["hw_target"] = "f7",
                            !["index_html"] = OFFICIAL_INDEX_URL]

\* C16: an invocation that ends with the state file other than it found it is
\* an update that completed a deployment (and wrote the file) or a clean (and
\* removed it); status, an up-to-date update and a failed update end with the
\* file as it was.
C16_StateFileLifecycle ==
    (pc = "done" /\ state_file # pre.state_file) =>
        \/ cmd = "update" /\ logged = "SDK deployed." /\ state_file.exists
        \/ cmd = "clean" /\ ~state_file.exists

\* C17: status on an existing state file returns 0 and reports its hardware
\* target, mode and version; without a state file it returns a non-zero
\* status with the message "SDK is not deployed"; either way it leaves the
\* deployed directory, the state file and the download directory alone.
C17_Status ==
    [][(pc = "idle" /\ cmd' = "status") =>
          /\ UNCHANGED fs
          /\ pc' = "done"
          /\ IF state_file.exists
             THEN /\ retcode' = 0
                  /\ logged' = "Details"
                  /\ task'.hw_target = DictGet(state_file.data, "hw_target", NoneV)
                  /\ task'.mode = DictGet(state_file.data, "mode", NoneV)
                  /\ DictGet(task'.all_params, "version", VERSION_UNKNOWN)
                        = DictGet(state_file.data, "version", VERSION_UNKNOWN)
             ELSE /\ retcode' # 0
                  /\ logged' = "SDK is not deployed"]_vars

C17_Witness ==
    /\ cmd = "status"
    /\ pc = "done"
    /\ retcode = 0
    /\ task.hw_target = "f18"
    /\ task.mode = "branch"
    /\ task.all_params["version"] = "1.3.0"
    /\ download_dir # {}

\* a clean without flags has ended
CleanDone == cmd = "clean" /\ pc = "done" /\ ~args.purge /\ ~args.downloads

\* the state directory holds neither current/ nor a state file
NothingDeployed == ~current_sdk_dir.exists /\ ~state_file.exists

\* C18: clean without flags leaves nothing deployed, whatever was; on that,
\* status reports "SDK is not deployed" with a non-zero status, and an update
\* without options deploys the default task and persists f7, channel, release.
C18_CleanThenFirstDeployment ==
    [][/\ CleanDone' => NothingDeployed'
       /\ (NothingDeployed /\ pc = "idle" /\ cmd' = "status") =>
             (retcode' # 0 /\ logged' = "SDK is not deployed")
       /\ (NothingDeployed /\ pc = "idle" /\ cmd' = "update" /\ BareUpdate(args')) =>
             task' = default
       /\ (/\ pc = "write"
           /\ ~pre.current_sdk_dir.exists
           /\ ~pre.state_file.exists
           /\ BareUpdate(args)) =>
             /\ state_file'.data["hw_target"] = "f7"
             /\ state_file'.data["mode"] = "channel"
             /\ state_file'.data["channel"] = "release"]_vars

C18_Witness ==
    /\ CleanDone
    /\ Deployed(pre.current_sdk_dir, pre.state_file)
    /\ pre.state_file.data["mode"] = "branch"
    /\ pre.state_file.data["hw_target"] = "f18"
    /\ NothingDeployed

\* get_sdk_component was called on the examined loader
Fetching == probe.state \in {"fetched", "fetch raised"}

\* the positions of the SDK archive entries for the target in the files of the
\* channel loader's version
SdkEntries ==
    {i \in DOMAIN probe.version_info.files :
        /\ probe.version_info.files[i].type = "sdk_zip"
        /\ probe.version_info.files[i].target = probe.target}

\* C19: get_sdk_component of a branch or channel loader returns only with
\* the archive of an SDK entry for exactly the target asked for (of a
\* non-empty url, for channel); when the index has no such entry it raises
\* and fetches nothing, whatever other targets and file types are listed.
C19_ExactSdkEntry ==
    Fetching =>
        IF probe.cls = "channel"
        THEN LET files == probe.version_info.files
             IN  /\ probe.state = "fetched" =>
                       \E i \in SdkEntries : files[i].url # "" /\ probe.url = files[i].url
                 /\ (\A i \in SdkEntries : files[i].url = "") =>
                       (probe.state = "fetch raised" /\ probe.url = NoneV)
        ELSE LET href == probe.branch_files[<<"sdk_zip", probe.target>>]
             IN  /\ probe.state = "fetched" => (href # Absent /\ probe.url = href)
                 /\ href = Absent =>
                       (probe.state = "fetch raised" /\ probe.url = NoneV)

\* the index lists the SDK archive of the other target and another archive
\* of this target
C19_Witness ==
    /\ probe.state = "fetch raised"
    /\ probe.cls = "channel"
    /\ probe.target = "f18"
    /\ probe.url = NoneV
    /\ probe.version_info.files =
          <<[type |-> "sdk_zip", target |-> "f7", url |-> "https://cdn.example.org/a.zip"],
            [type |-> "lib_zip", target |-> "f18", url |-> "https://cdn.example.org/b.zip"]>>

\* C20: a channel loader constructed on an index is ready exactly when the
\* index has a channel of the id of the requested UpdateChannel member and
\* the first such channel lists a version; its version_info is then the first
\* entry of that channel's versions.  Otherwise the constructor raises.
C20_ChannelFirstVersion ==
    (index.served /\ probe.cls = "channel" /\ probe.state \in {"ready", "raised"}) =>
        LET id == UpdateChannel[probe.channel]
            channels == index.channels
        IN  IF \E i \in DOMAIN channels :
                  /\ channels[i].id = id
                  /\ \A j \in 1..(i - 1) : channels[j].id # id
                  /\ channels[i].versions # <<>>
            THEN /\ probe.state = "ready"
                 /\ \E i \in DOMAIN channels :
                       /\ channels[i].id = id
                       /\ probe.version_info = Head(channels[i].versions)
            ELSE probe.state = "raised"

C20_Witness ==
    /\ probe.state = "ready"
    /\ probe.channel = "DEV"
    /\ Len(index.channels) = 2
    /\ index.channels[1].id = "release"
    /\ index.channels[1].versions # <<>>
    /\ Len(index.channels[2].versions) = 2
    /\ index.channels[2].versions[2].version # index.channels[2].versions[1].version
    /\ probe.version_info = index.channels[2].versions[1]
    /\ probe.version_info # index.channels[1].versions[1]

(***************************************************************************)
(* C21: version conflict on a branch page                                  *)
(***************************************************************************)
\* the version strings of the file names the extractor takes in: anchors that
\* match the pattern and hold no ".map"
Discovered(anchors) ==
    {anchors[i].version : i \in {k \in DOMAIN anchors :
                                    anchors[k].matches /\ ~anchors[k].map}}

\* two version strings share a prefix: some version string starts both
SharePrefix(v1, v2) ==
    \E p \in BranchVersions : StartsWith(v1, p) /\ StartsWith(v2, p)

BranchConstructed == index.kind = "html" /\ probe.cls = "branch"

\* C21: when the file names of a branch page hold two version strings that
\* share no prefix, constructing the branch loader raises: no loader is left
\* and no version and no file is taken from the page.  A loader that is
\* constructed has a version that starts every version string of the page.
C21_VersionConflictRaises ==
    BranchConstructed =>
        /\ (\E v1, v2 \in Discovered(index.anchors) : ~SharePrefix(v1, v2))
              => /\ probe.state = "raised"
                 /\ probe.version = NoneV
                 /\ probe.branch_files = NoBranchFiles
        /\ probe.state # "raised"
              => \A v \in Discovered(index.anchors) : StartsWith(v, probe.version)

\* a page with file names of 1.2.0 and of 1.3.0, and the constructor raised
C21_Witness ==
    /\ BranchConstructed
    /\ {"1.2.0", "1.3.0"} \subseteq Discovered(index.anchors)
    /\ probe.state = "raised"

(***************************************************************************)
(* C22: loader metadata round trip                                         *)
(***************************************************************************)
\* `update` on the state directories a first update left: the task is merged
\* from the state file and the command line, and its loader is constructed
NextRoundTrip ==
    \/ \E a \in WideUpdateArgs : UpdateBegin(a)
    \/ CreateLoader

SpecRoundTrip == InitMerge /\ [][NextRoundTrip]_vars

\* loader' : the loader constructed from the metadata of loader, the index
\* answering as it did for loader
Rebuilt(loader) ==
    LoaderInit(loader.cls,
               metadata_to_init_kwargs(loader.cls, get_metadata(loader)).kwargs,
               loader.version, loader.files)

RoundTrip(loader) ==
    LET ctor == metadata_to_init_kwargs(loader.cls, get_metadata(loader))
        ctor2 == metadata_to_init_kwargs(loader.cls, get_metadata(Rebuilt(loader)))
    IN  /\ ~ctor.raises
        /\ ~ctor2.raises
        /\ ctor.kwargs = ctor2.kwargs
        /\ \A k \in ModeFields(loader.cls) :
              get_metadata(Rebuilt(loader))[k] = get_metadata(loader)[k]
        /\ Rebuilt(loader) = loader

LoaderConstructed == cmd = "update" /\ pc = "check"

\* C22: for a loader of any of the four classes, the constructor arguments read
\* from its metadata construct a loader whose metadata gives the same
\* constructor arguments and the same mode-specific fields; the state file a
\* deployment wrote and the fragment made from a command line hold every key
\* metadata_to_init_kwargs reads; and an update that names no mode and no index
\* URL constructs, from the state file, a loader with the mode-specific fields
\* of the file.
C22_RoundTrip ==
    /\ LoaderConstructed => RoundTrip(sdk_loader)
    /\ state_file.exists =>
          /\ \A k \in ModeFields(state_file.data["mode"]) : state_file.data[k] # Absent
          /\ ~metadata_to_init_kwargs(state_file.data["mode"], state_file.data).raises
    /\ (cmd = "update" /\ Truthy(Requested.mode)) =>
          /\ \A k \in Keys :
                args_namespace_to_metadata(Requested.mode, args)[k] # Absent
                    <=> k \in ModeFields(Requested.mode)
          /\ ~metadata_to_init_kwargs(Requested.mode,
                                      args_namespace_to_metadata(Requested.mode, args)).raises
    /\ (LoaderConstructed /\ ~Truthy(Requested.mode) /\ ~Truthy(args.index_url)) =>
          /\ sdk_loader.cls = state_file.data["mode"]
          /\ \A k \in ModeFields(sdk_loader.cls) :
                get_metadata(sdk_loader)[k] = state_file.data[k]

\* a channel loader on a mirror index, constructed from the state file
C22_Witness ==
    /\ LoaderConstructed
    /\ ~Truthy(Requested.mode)
    /\ ~Truthy(args.index_url)
    /\ sdk_loader.cls = "channel"
    /\ sdk_loader.index_html_url # OFFICIAL_INDEX_URL
    /\ state_file.data["channel"] = "rc"
    /\ sdk_loader.channel = "RC"

(***************************************************************************)
(* C23: url and local deployments                                          *)
(***************************************************************************)
\* get_sdk_component was called in the update that ended
FetchAttempted == sdk_component_path # NoPath \/ logged = "Failed to fetch SDK"

\* C23: an update whose loader is a url or a local loader never ends
\* up-to-date: whatever the force flag and whatever is on disk, it calls
\* get_sdk_component.
C23_UrlLocalAlwaysFetches ==
    (UpdateDone /\ sdk_loader.cls \in {"url", "local"}) =>
        /\ logged # "SDK is up-to-date"
        /\ FetchAttempted

(***************************************************************************)
(* C24: the download directory as a cache                                  *)
(***************************************************************************)
\* the archive get_sdk_component is about to fetch is in the download directory
ArchiveCached ==
    /\ cmd = "update"
    /\ pc = "fetch"
    /\ sdk_loader.cls \in {"branch", "channel"}
    /\ ~ComponentMissing(sdk_loader, task.hw_target)
    /\ ArchiveName(sdk_loader, task.hw_target) \in download_dir

\* C24: get_sdk_component of a branch or channel loader whose archive is
\* already in the download directory returns the path of that file without
\* opening the URL: it cannot fail on the network and changes nothing on disk.
C24_CachedArchiveNotDownloaded ==
    [][ArchiveCached =>
          /\ pc' = "rmtree"
          /\ sdk_component_path' =
                [dir |-> "download", name |-> ArchiveName(sdk_loader, task.hw_target)]
          /\ UNCHANGED fs]_vars

(***************************************************************************)
(* C25: a local file that cannot be read                                   *)
(***************************************************************************)
\* C25: a local-mode update that got past the staleness check and failed (the
\* file of the loader is missing or is no archive) ends as a fetch failure:
\* "Failed to fetch SDK", a non-zero status, and the deployed directory and
\* the state file as before the call.
C25_LocalFileFailureIsFetchFailure ==
    (/\ UpdateDone
     /\ sdk_loader.cls = "local"
     /\ retcode # 0
     /\ ~(~task.force /\ pre.current_sdk_dir.exists /\ ~pre.state_file.exists))
    => /\ logged = "Failed to fetch SDK"
       /\ DeploymentUntouched

(***************************************************************************)
(* C26: a task without a mode a loader class answers to                    *)
(***************************************************************************)
\* ufbt_state.json as another program or an editor left it: mode is missing,
\* null or a name no loader class has; file_path is there or not
ForeignModes == {Absent, NoneV, "git"}
ForeignStates ==
    {[EmptyDict EXCEPT !["mode"] = m, !["hw_target"] = t, !["version"] = v,
                       !["file_path"] = fp] :
        m \in ForeignModes, t \in Targets, v \in Versions,
        fp \in {Absent, "/tmp/sdk.zip"}}

InitForeign ==
    /\ current_sdk_dir =
          [exists |-> TRUE, complete |-> TRUE,
           sdk |-> [src |-> "local",
                    path |-> [dir |-> "local", name |-> <<"local", "/tmp/sdk.zip">>]]]
    /\ state_file \in [exists : {TRUE}, data : ForeignStates]
    /\ download_dir = {}
    /\ pc = "idle"
    /\ cmd = "none"
    /\ args = NoArgs
    /\ task = NewTask
    /\ sdk_loader = NoLoader
    /\ sdk_component_path = NoPath
    /\ retcode = -1
    /\ logged = ""
    /\ pre = NoPre
    /\ index = NoIndex
    /\ probe = NoProbe
    /\ peer = NoPeer
    /\ wait_status = -1

\* one `update` on such a state directory
NextForeign ==
    \/ \E a \in UpdateArgs : UpdateBegin(a)
    \/ CreateLoader
    \/ CheckUpToDate
    \/ FetchComponent
    \/ RemoveSdkDir
    \/ ExtractSdk
    \/ WriteState

SpecForeign == InitForeign /\ [][NextForeign]_vars

\* the mode of the task is missing or names no loader class
InvalidMode ==
    \A i \in DOMAIN all_boostrap_loader_cls : all_boostrap_loader_cls[i] # task.mode

\* C26: an update whose task has a missing mode or one that names no loader
\* class fails in create_for_task: no loader is constructed, the status is
\* non-zero, and the deployed directory, the state file and the download
\* directory stay as they were.
C26_InvalidModeFails ==
    (cmd = "update" /\ pc # "create" /\ InvalidMode) =>
        /\ pc = "done"
        /\ sdk_loader = NoLoader
        /\ sdk_component_path = NoPath
        /\ retcode # 0
        /\ DeploymentUntouched
        /\ download_dir = {}

(***************************************************************************)
(* C27: the version sentinels of the url and local loaders                 *)
(***************************************************************************)
\* C27: the metadata of a local loader, and the state file written after a
\* deployment through it, have the version "local"; those of a url loader have
\* the version "unknown".
C27_LocalVersionSentinel ==
    (cmd = "update" /\ sdk_loader.cls \in {"url", "local"}) =>
        LET sentinel == IF sdk_loader.cls = "local" THEN "local" ELSE VERSION_UNKNOWN
        IN  /\ get_metadata(sdk_loader)["version"] = sentinel
            /\ (UpdateDone /\ logged = "SDK deployed.") =>
                  state_file.data["version"] = sentinel

(***************************************************************************)
(* C28: the outcomes of an update                                          *)
(***************************************************************************)
Skipped == logged = "SDK is up-to-date" /\ retcode = 0 /\ DeploymentUntouched

Persisted ==
    /\ logged = "SDK deployed."
    /\ retcode = 0
    /\ current_sdk_dir.exists
    /\ state_file.exists

FailedResolve == sdk_loader = NoLoader /\ retcode # 0 /\ DeploymentUntouched

FailedFetch ==
    /\ sdk_loader # NoLoader
    /\ logged = "Failed to fetch SDK"
    /\ retcode # 0
    /\ DeploymentUntouched

\* C28: an update ends as skipped (up-to-date), persisted (redeployed, state
\* file written), failed to resolve or failed to fetch, and as nothing else;
\* the two failures leave the deployed directory and the state file as they
\* were.
C28_UpdateOutcomes ==
    UpdateDone => (Skipped \/ Persisted \/ FailedResolve \/ FailedFetch)

(***************************************************************************)
(* C29: recovery by re-invocation                                          *)
(***************************************************************************)
\* the update failed on its source: the index or the archive could not be
\* fetched, or the archive could not be extracted
SourceFailed ==
    \/ sdk_loader = NoLoader
    \/ logged = "Failed to fetch SDK"
    \/ sdk_component_path # NoPath

\* C29: whatever earlier updates left behind, an update without force fails
\* only on its source; with the source reachable and the archive valid it ends
\* with status 0 and a complete deployment.
C29_FailureRecoverable ==
    (UpdateDone /\ ~args.force) =>
        IF retcode = 0
        THEN Deployed(current_sdk_dir, state_file)
        ELSE SourceFailed

(***************************************************************************)
(* C30: what a successful update leaves                                    *)
(***************************************************************************)
\* C30: whenever an update returns status 0, whether it redeployed or found
\* the deployment up-to-date, the deployed directory exists and the state file
\* holds the hardware target of the task and the version its loader resolved.
C30_SuccessMeansDeployed ==
    (UpdateDone /\ retcode = 0) =>
        /\ current_sdk_dir.exists
        /\ state_file.exists
        /\ state_file.data["hw_target"] = task.hw_target
        /\ state_file.data["version"] = ResolvedVersion

\* an update for f18 ended up-to-date on a state directory that an earlier
\* invocation deployed
C30_Witness ==
    /\ UpdateDone
    /\ retcode = 0
    /\ logged = "SDK is up-to-date"
    /\ task.hw_target = "f18"
    /\ ResolvedVersion = "1.3.0"
    /\ state_file.data["hw_target"] = "f18"

(***************************************************************************)
(* C31: the mode of the state file and the loader of the deployment        *)
(***************************************************************************)
\* C31: in every state in which the state file exists, the deployed
\* directory exists, was extracted completely from the archive of one loader,
\* and the mode of the state file is the mode key of that loader's class.
C31_ModeMatchesDeployment ==
    state_file.exists =>
        /\ current_sdk_dir.exists
        /\ current_sdk_dir.complete
        /\ \E i \in DOMAIN all_boostrap_loader_cls :
              all_boostrap_loader_cls[i] = state_file.data["mode"]
        /\ state_file.data["mode"] = current_sdk_dir.sdk.src

\* a branch deployment took the place of a channel deployment
C31_Witness ==
    /\ UpdateDone
    /\ logged = "SDK deployed."
    /\ pre.state_file.exists
    /\ pre.state_file.data["mode"] = "channel"
    /\ state_file.data["mode"] = "branch"
    /\ current_sdk_dir.sdk.src = "branch"

(***************************************************************************)
(* C32: two updates at once on one state directory                         *)
(***************************************************************************)
\* the command lines of the two invocations: `update` with or without --force
\* and --channel release
RaceArgs ==
    {a \in UpdateArgs :
        /\ a.hw_target = NoneV
        /\ a.branch = NoneV /\ a.url = NoneV /\ a.local = NoneV
        /\ a.channel \in {NoneV, "release"}}

\* channel release, version 1.2.0, is deployed for f7; no command runs
InitRace ==
    /\ LET t == default
           l == LoaderInit("channel",
                           metadata_to_init_kwargs("channel", t.all_params).kwargs,
                           VersionNames[1], Targets)
           path == ComponentPath(l, t.hw_target)
       IN  /\ current_sdk_dir = [exists |-> TRUE, complete |-> TRUE,
                                 sdk |-> [src |-> l.cls, path |-> path]]
           /\ state_file = [exists |-> TRUE, data |-> ufbt_state(t, l)]
           /\ download_dir = {path.name}
    /\ pc = "idle"
    /\ cmd = "none"
    /\ args = NoArgs
    /\ task = NewTask
    /\ sdk_loader = NoLoader
    /\ sdk_component_path = NoPath
    /\ retcode = -1
    /\ logged = ""
    /\ pre = NoPre
    /\ index = NoIndex
    /\ probe = NoProbe
    /\ peer = NoPeer
    /\ wait_status = -1

\* the scheduler takes the running process off the processor and puts the
\* other one on: each keeps its own memory, the state directory is shared
Switch ==
    /\ peer' = [pc |-> pc, cmd |-> cmd, args |-> args, task |-> task,
                sdk_loader |-> sdk_loader, sdk_component_path |-> sdk_component_path,
                retcode |-> retcode, logged |-> logged, pre |-> pre]
    /\ pc' = peer.pc
    /\ cmd' = peer.cmd
    /\ args' = peer.args
    /\ task' = peer.task
    /\ sdk_loader' = peer.sdk_loader
    /\ sdk_component_path' = peer.sdk_component_path
    /\ retcode' = peer.retcode
    /\ logged' = peer.logged
    /\ pre' = peer.pre
    /\ UNCHANGED <<fs, index, probe, wait_status>>

\* the step of deploy() the running process is at
DeployStep ==
    \/ CreateLoader
    \/ CheckUpToDate
    \/ FetchComponent
    \/ RemoveSdkDir
    \/ ExtractSdk
    \/ WriteState

NextRace ==
    \/ \E a \in RaceArgs : UpdateBegin(a)
    \/ CreateLoader
    \/ CheckUpToDate
    \/ FetchComponent
    \/ RemoveSdkDir
    \/ ExtractSdk
    \/ WriteState
    \/ Switch

SpecRace == InitRace /\ [][NextRace]_vars

\* the positions of deploy() from which the process goes on
InDeploy(p) == p \in {"create", "check", "fetch", "rmtree", "extract", "write"}

\* C32: nothing makes one update wait for the other: while both run, the
\* running one can take its step of deploy() wherever the other one stands,
\* and the scheduler can switch to the other one; the staleness check, the
\* removal, the extraction and the write of one are never held back because
\* the other is between its own staleness check and its write.
C32_NothingSerialises ==
    (cmd = "update" /\ peer.cmd = "update" /\ InDeploy(pc) /\ InDeploy(peer.pc)) =>
        /\ ENABLED DeployStep
        /\ ENABLED Switch

\* both invocations found the same deployment, both passed the staleness
\* check, both removed current/ and both extracted into it
C32_Witness ==
    /\ cmd = "update"
    /\ peer.cmd = "update"
    /\ pc = "write"
    /\ peer.pc = "write"
    /\ Deployed(pre.current_sdk_dir, pre.state_file)
    /\ peer.pre = pre
    /\ current_sdk_dir.exists

(***************************************************************************)
(* C33: anchors a branch page may hold besides its files                   *)
(***************************************************************************)
\* an anchor that names a file of a type of FileType
Recognised(href) == href.matches /\ ~href.map /\ href.type \in FileTypes

\* C33: the loader constructed from a branch page is the one constructed from
\* the page without its anchors that hold ".map", do not match the pattern or
\* have a type and extension FileType does not know: the same files, the same
\* version, and the constructor raises for both or for neither.
C33_SkippedAnchorsChangeNothing ==
    BranchConstructed =>
        LET kept == SelectSeq(index.anchors, Recognised)
            extractor == feed(kept, Len(kept))
        IN  /\ (probe.state = "raised") <=> extractor.raised
            /\ probe.state # "raised" =>
                  /\ probe.branch_files = extractor.files
                  /\ probe.version = extractor.version

(***************************************************************************)
(* C34: the order of the anchors                                           *)
(***************************************************************************)
\* the orderings of n anchors
Perms(n) == {p \in [1..n -> 1..n] : \A i, j \in 1..n : p[i] = p[j] => i = j}

\* C34: constructing the branch loader from the anchors of the page in any
\* other order gives the same outcome: the constructor raises for every
\* order or for none, and when it does not raise the version is the same.
C34_OrderIndependent ==
    BranchConstructed =>
        \A p \in Perms(Len(index.anchors)) :
            LET reordered == [i \in 1..Len(index.anchors) |-> index.anchors[p[i]]]
                extractor == feed(reordered, Len(reordered))
            IN  /\ extractor.raised <=> (probe.state = "raised")
                /\ ~extractor.raised => extractor.version = probe.version

(***************************************************************************)
(* C35: what clean removes                                                 *)
(***************************************************************************)
\* C35: clean --purge leaves nothing of the state directory; clean
\* --downloads empties the download directory and leaves the deployed
\* directory and the state file as they were, so that status reads the same
\* task before and after; clean without flags removes the deployed directory
\* with its state file and leaves the download directory as it was.
C35_CleanFrames ==
    [][(pc = "idle" /\ cmd' = "clean") =>
          IF args'.purge
          THEN /\ NothingDeployed'
               /\ download_dir' = {}
          ELSE IF args'.downloads
          THEN /\ download_dir' = {}
               /\ UNCHANGED <<current_sdk_dir, state_file>>
               /\ HasPreviousTask' = HasPreviousTask
               /\ get_previous_task' = get_previous_task
          ELSE /\ NothingDeployed'
               /\ UNCHANGED download_dir]_vars

\* clean --downloads has ended: the channel deployment is whole, the archive
\* it was extracted from is gone from the download directory
C35_Witness ==
    /\ cmd = "clean"
    /\ pc = "done"
    /\ args.downloads
    /\ ~args.purge
    /\ Deployed(current_sdk_dir, state_file)
    /\ state_file.data["mode"] = "channel"
    /\ download_dir = {}

(***************************************************************************)
(* C36: the status ufbt_cli returns for the delegated build                *)
(***************************************************************************)
\* the wait status of os.system on a POSIX system: 16 bits, the exit code in
\* the high byte, the terminating signal (and the core flag) in the low byte
WaitStatusBits == 16
ExitCodeShift == 8
WaitStatuses == 0..(2^WaitStatusBits - 1)

\* retcode >> 8
ShiftRight(n, bits) == n \div (2^bits)

\* the state directory holds an SDK and the command line no bootstrap
\* subcommand: ufbt_cli is about to hand the build to os.system
InitCli ==
    /\ LET t == default
           l == LoaderInit("channel",
                           metadata_to_init_kwargs("channel", t.all_params).kwargs,
                           VersionNames[1], Targets)
           path == ComponentPath(l, t.hw_target)
       IN  /\ current_sdk_dir = [exists |-> TRUE, complete |-> TRUE,
                                 sdk |-> [src |-> l.cls, path |-> path]]
           /\ state_file = [exists |-> TRUE, data |-> ufbt_state(t, l)]
           /\ download_dir = {path.name}
    /\ pc = "idle"
    /\ cmd = "none"
    /\ args = NoArgs
    /\ task = NewTask
    /\ sdk_loader = NoLoader
    /\ sdk_component_path = NoPath
    /\ retcode = -1
    /\ logged = ""
    /\ pre = NoPre
    /\ index = NoIndex
    /\ probe = NoProbe
    /\ peer = NoPeer
    /\ wait_status = -1

\* ufbt_cli (not Windows): retcode = os.system(commandline); return retcode >> 8
DelegatedBuild ==
    /\ pc = "idle"
    /\ cmd = "none"
    /\ \E status \in WaitStatuses :
          /\ wait_status' = status
          /\ retcode' = ShiftRight(status, ExitCodeShift)
    /\ cmd' = "build"
    /\ pc' = "done"
    /\ UNCHANGED <<fs, args, task, sdk_loader, sdk_component_path, logged, pre,
                   index, probe, peer>>

NextCli == DelegatedBuild

SpecCli == InitCli /\ [][NextCli]_vars

\* C36: whenever the wait status of the delegated build is not that of a
\* command that exited with code 0, ufbt_cli returns a non-zero value, for
\* every 16-bit wait status, a terminating signal in its low byte included.
C36_FailedBuildNonZero ==
    (cmd = "build" /\ pc = "done" /\ wait_status # 0) => retcode # 0

====
